---- MODULE Spec2Model ----
(***************************************************************************)
(* PyCoach: the App component's state (React useState cells), its event    *)
(* handlers, and the gateway functions they await.                         *)
(*                                                                         *)
(* Every handler is an async function: it runs synchronously up to its     *)
(* await, is suspended while the gateway call is outstanding, and resumes  *)
(* in its try-continuation, catch and finally blocks when the call         *)
(* settles.  A suspended handler is an element of `inflight`; the handler's*)
(* synchronous prefix is one action and its resumption is another.  Other  *)
(* handlers may run in between.                                            *)
(*                                                                         *)
(* Values that the program treats as opaque (lesson text, image payload,   *)
(* video handle) carry a field `for` naming the topic of the request that  *)
(* produced them, so that provenance can be stated.  `lastEvent` records   *)
(* the handler step taken last (with the call's outcome).  A suspended     *)
(* handler carries `before`, the value its result slot had when it         *)
(* started, and `clean`, false once another handler step has written that  *)
(* slot; a lesson call also carries `overtaken`, true once a lesson call   *)
(* issued after it has already stored its result.  No handler reads any of *)
(* these.                                                                  *)
(***************************************************************************)
EXTENDS Integers, Sequences, FiniteSets, TLC

VARIABLES
    mounted,        \* the component has been mounted (first effect run)
    currentView,    \* useState<View>('lessons')
    currentLesson,  \* useState<string | null>(null)
    isLoading,      \* useState(false)
    analysis,       \* useState<any>(null)
    chatMessages,   \* useState<{role, text}[]>([])
    chatInput,      \* useState('')
    lessonTopic,    \* useState('Introduction to Python')
    conceptImage,   \* useState<string | null>(null)
    conceptVideo,   \* useState<string | null>(null)
    isTranscribing, \* useState(false)
    inflight,       \* the suspended handler invocations, oldest first
    requests,       \* number of handler invocations that reached an await
    budget,         \* how many of them the run may make (a bound of the model)
    lastEvent       \* the handler step taken last

vars == <<mounted, currentView, currentLesson, isLoading, analysis, chatMessages,
          chatInput, lessonTopic, conceptImage, conceptVideo, isTranscribing,
          inflight, requests, budget, lastEvent>>

(***************************************************************************)
(* Bounds of the model.                                                    *)
(***************************************************************************)
\* handler invocations that reach an await in one run
MaxRequests == 4
\* status queries one video call may make
MaxPolls == 2

(***************************************************************************)
(* Values.                                                                 *)
(***************************************************************************)
NULL == [null |-> TRUE]

View == {"lessons", "playground", "chat", "voice"}

DefaultTopic == "Introduction to Python"

\* the topic buttons of the lessons view, in the order they are rendered
TopicList == <<"Variables", "Loops", "Functions", "Classes">>

\* topic buttons the user clicks in the model (the first MaxTopics of TopicList)
MaxTopics == 1

TopicButtons == {TopicList[i] : i \in 1..(IF MaxTopics < Len(TopicList) THEN MaxTopics ELSE Len(TopicList))}

Topics == {DefaultTopic} \cup TopicButtons

\* a rejected promise / thrown exception
ERROR == [error |-> TRUE]

\* response.text of generateContent: any string, possibly empty
LessonBodies == {"", "md"}

LessonText(topic, body) == [for |-> topic, body |-> body]

\* JavaScript truthiness of a string | null
Falsy(x) == x = NULL \/ (x # NULL /\ x.body = "")

\* An image payload (base64 data of an inline part).
ImagePayload(topic, edited) == [for |-> topic, edited |-> edited]

\* An image string is held as the sequence of its comma-separated segments:
\* `data:image/png;base64,${data}` has two, and split(',') yields them.
DataUri(payload) == [segments |-> <<"data:image/png;base64", payload>>]

Split(str) == str.segments

\* a playable object URL
VideoUrl(topic) == [for |-> topic]

Remove(seq, i) == [j \in 1..(Len(seq) - 1) |-> IF j < i THEN seq[j] ELSE seq[j + 1]]

Event(name, flow, result) == [name |-> name, flow |-> flow, result |-> result]

\* the result slot a flow of the given kind writes
SlotOf(kind) ==
    CASE kind = "lesson" -> "lesson"
      [] kind \in {"illustration", "edit"} -> "image"
      [] kind = "video" -> "video"
      [] kind = "analyze" -> "analysis"
      [] OTHER -> "none"

\* the outstanding flows, those writing `slot` marked as interfered with
Touch(flows, slot) ==
    [j \in 1..Len(flows) |->
        IF SlotOf(flows[j].kind) = slot
        THEN [flows[j] EXCEPT !.clean = FALSE] ELSE flows[j]]

\* a further handler invocation may be suspended (bound of the model)
CanStart == requests < budget

(***************************************************************************)
(* Initial state: the useState initial values, before the first effect.    *)
(***************************************************************************)
InitState ==
    /\ mounted = FALSE
    /\ currentView = "lessons"
    /\ currentLesson = NULL
    /\ isLoading = FALSE
    /\ analysis = NULL
    /\ chatMessages = <<>>
    /\ chatInput = <<>>
    /\ lessonTopic = DefaultTopic
    /\ conceptImage = NULL
    /\ conceptVideo = NULL
    /\ isTranscribing = FALSE
    /\ inflight = <<>>
    /\ requests = 0
    /\ lastEvent = Event("init", NULL, NULL)

Init == InitState /\ budget = MaxRequests - 1

\* the same, with the full budget of handler invocations
InitLong == InitState /\ budget = MaxRequests

(***************************************************************************)
(* Lesson generation flow.                                                 *)
(***************************************************************************)
LessonSlot == [lesson |-> currentLesson, topic |-> lessonTopic]

LessonCall(topic) ==
    [kind |-> "lesson", topic |-> topic, overtaken |-> FALSE,
     before |-> LessonSlot, clean |-> TRUE]

\* the media a starting lesson flow found stored
MediaSlots == [image |-> conceptImage, video |-> conceptVideo]

\* a variant that would keep the stored illustration across a lesson start
LessonStartImage_Kept(image) == image

\* setConceptImage(null) and setConceptVideo(null) before the await
LessonStartImage(image) == NULL

LessonStartVideo(video) == NULL

\* handleGenerateLesson up to `await generateLesson(topic)`
handleGenerateLesson(topic) ==
    /\ isLoading' = TRUE
    /\ conceptImage' = LessonStartImage(conceptImage)
    /\ conceptVideo' = LessonStartVideo(conceptVideo)
    /\ inflight' = Append(Touch(Touch(inflight, "image"), "video"), LessonCall(topic))
    /\ requests' = requests + 1

\* a topic button's onClick (the buttons are not disabled while loading)
TopicClick(topic) ==
    /\ mounted /\ currentView = "lessons" /\ CanStart
    /\ handleGenerateLesson(topic)
    /\ lastEvent' = Event("lessonStart", LessonCall(topic), MediaSlots)
    /\ UNCHANGED <<budget, mounted, currentView, currentLesson, analysis, chatMessages,
                   chatInput, lessonTopic, isTranscribing>>

\* the lesson calls still outstanding that were issued before call i
MarkOvertaken(flows, i) ==
    [j \in 1..Len(flows) |->
        IF j < i /\ flows[j].kind = "lesson"
        THEN [flows[j] EXCEPT !.overtaken = TRUE] ELSE flows[j]]

\* a variant that would discard the result of an overtaken lesson call
LessonStored_DropsStale(flow, text, lesson) == IF flow.overtaken THEN lesson ELSE text

\* a variant that would leave the active topic as it was
TopicStored_Kept(flow, topic) == topic

\* a variant without the finally block
FinallyLoading_Skipped(loading) == loading

\* what the continuation after `await generateLesson(topic)` stores
LessonStored(flow, text, lesson) == text

TopicStored(flow, topic) == flow.topic

\* the flow's finally block
FinallyLoading(loading) == FALSE

\* generateLesson resolved with response.text: the try-continuation and finally
LessonResolve(i, body) ==
    /\ i \in 1..Len(inflight) /\ inflight[i].kind = "lesson"
    /\ LET flow == inflight[i]
           text == LessonText(flow.topic, body)
       IN /\ currentLesson' = LessonStored(flow, text, currentLesson)
          /\ lessonTopic' = TopicStored(flow, lessonTopic)
          /\ isLoading' = FinallyLoading(isLoading)
          /\ inflight' = Remove(Touch(MarkOvertaken(inflight, i), "lesson"), i)
          /\ lastEvent' = Event("lessonOk", flow, text)
    /\ UNCHANGED <<budget, mounted, currentView, analysis, chatMessages, chatInput,
                   conceptImage, conceptVideo, isTranscribing, requests>>

\* what a failed flow leaves in its result slot (the catch block only logs)
CatchKeeps(slot) == slot

\* a variant whose catch block would issue the call again
LessonReject_Retries(i) ==
    /\ i \in 1..Len(inflight) /\ inflight[i].kind = "lesson"
    /\ CanStart
    /\ requests' = requests + 1
    /\ lastEvent' = Event("lessonFail", inflight[i], ERROR)
    /\ UNCHANGED <<budget, mounted, currentView, currentLesson, lessonTopic, isLoading,
                   inflight, analysis, chatMessages, chatInput, conceptImage,
                   conceptVideo, isTranscribing>>

\* generateLesson rejected: the catch block and finally
LessonReject(i) ==
    /\ i \in 1..Len(inflight) /\ inflight[i].kind = "lesson"
    /\ currentLesson' = CatchKeeps(currentLesson)
    /\ lessonTopic' = CatchKeeps(lessonTopic)
    /\ isLoading' = FinallyLoading(isLoading)
    /\ inflight' = Remove(inflight, i)
    /\ lastEvent' = Event("lessonFail", inflight[i], ERROR)
    /\ UNCHANGED <<budget, mounted, currentView, analysis, chatMessages, chatInput,
                   conceptImage, conceptVideo, isTranscribing, requests>>

(***************************************************************************)
(* The effect on currentView, and navigation.                              *)
(***************************************************************************)
\* a variant of the condition that would not look at the stored lesson
EffectStartsLesson_Always(view, lesson) == view = "lessons"

\* the effect's condition, evaluated in the render that follows the change
EffectStartsLesson(view, lesson) == view = "lessons" /\ Falsy(lesson)

\* first render: the effect runs once after mount
Mount ==
    /\ ~mounted
    /\ mounted' = TRUE
    /\ IF EffectStartsLesson(currentView, currentLesson)
       THEN /\ handleGenerateLesson(DefaultTopic)
            /\ lastEvent' = Event("mount", LessonCall(DefaultTopic), MediaSlots)
       ELSE /\ lastEvent' = Event("mount", NULL, NULL)
            /\ UNCHANGED <<isLoading, conceptImage, conceptVideo, inflight, requests>>
    /\ UNCHANGED <<budget, currentView, currentLesson, analysis, chatMessages, chatInput,
                   lessonTopic, isTranscribing>>

\* a variant of the navigation rail that would not switch while loading
ViewSelected_Gated(view, current) == IF isLoading THEN current ELSE view

\* setCurrentView(view)
ViewSelected(view, current) == view

\* NavItem onClick: setCurrentView(view); the effect runs when the view changed
Navigate(view) ==
    /\ mounted
    /\ currentView' = ViewSelected(view, currentView)
    /\ IF view # currentView /\ EffectStartsLesson(view, currentLesson)
       THEN /\ CanStart
            /\ handleGenerateLesson(DefaultTopic)
            /\ lastEvent' = Event("navigate", LessonCall(DefaultTopic), [selected |-> view])
       ELSE /\ lastEvent' = Event("navigate", NULL, [selected |-> view])
            /\ UNCHANGED <<isLoading, conceptImage, conceptVideo, inflight, requests>>
    /\ UNCHANGED <<budget, mounted, currentLesson, analysis, chatMessages, chatInput,
                   lessonTopic, isTranscribing>>

(***************************************************************************)
(* Illustration flow.                                                      *)
(***************************************************************************)
IllustrationCall(topic) ==
    [kind |-> "illustration", topic |-> topic, before |-> conceptImage, clean |-> TRUE]

\* what generateConceptImage(concept) may return: the first inline part as a
\* data URI, or null when the response has no inline part
ConceptImages(concept) == {NULL, DataUri(ImagePayload(concept, FALSE))}

\* the Illustrate button (disabled while isLoading): handleGenerateIllustration
\* up to `await generateConceptImage(lessonTopic)`
handleGenerateIllustration ==
    /\ mounted /\ currentView = "lessons" /\ ~isLoading /\ CanStart
    /\ isLoading' = TRUE
    /\ inflight' = Append(inflight, IllustrationCall(lessonTopic))
    /\ requests' = requests + 1
    /\ lastEvent' = Event("illustrationStart", IllustrationCall(lessonTopic), NULL)
    /\ UNCHANGED <<budget, mounted, currentView, currentLesson, analysis, chatMessages,
                   chatInput, lessonTopic, conceptImage, conceptVideo, isTranscribing>>

\* setConceptImage(img) / setConceptImage(edited)
ImageStored(result, image) == result

IllustrationResolve(i, img) ==
    /\ i \in 1..Len(inflight) /\ inflight[i].kind = "illustration"
    /\ img \in ConceptImages(inflight[i].topic)
    /\ conceptImage' = ImageStored(img, conceptImage)
    /\ isLoading' = FinallyLoading(isLoading)
    /\ inflight' = Remove(Touch(inflight, "image"), i)
    /\ lastEvent' = Event("illustrationOk", inflight[i], img)
    /\ UNCHANGED <<budget, mounted, currentView, currentLesson, analysis, chatMessages,
                   chatInput, lessonTopic, conceptVideo, isTranscribing, requests>>

\* a variant whose catch block would clear the stored illustration
IllustrationReject_Clears(i) ==
    /\ i \in 1..Len(inflight) /\ inflight[i].kind = "illustration"
    /\ conceptImage' = NULL
    /\ isLoading' = FinallyLoading(isLoading)
    /\ inflight' = Remove(inflight, i)
    /\ lastEvent' = Event("illustrationFail", inflight[i], ERROR)
    /\ UNCHANGED <<budget, mounted, currentView, currentLesson, analysis, chatMessages,
                   chatInput, lessonTopic, conceptVideo, isTranscribing, requests>>

\* generateConceptImage rejected: the catch block and finally
IllustrationReject(i) ==
    /\ i \in 1..Len(inflight) /\ inflight[i].kind = "illustration"
    /\ conceptImage' = CatchKeeps(conceptImage)
    /\ isLoading' = FinallyLoading(isLoading)
    /\ inflight' = Remove(inflight, i)
    /\ lastEvent' = Event("illustrationFail", inflight[i], ERROR)
    /\ UNCHANGED <<budget, mounted, currentView, currentLesson, analysis, chatMessages,
                   chatInput, lessonTopic, conceptVideo, isTranscribing, requests>>

(***************************************************************************)
(* Illustration edit flow.                                                 *)
(***************************************************************************)
RetroPrompt == "Add a retro filter"

EditCall(image, prompt) ==
    [kind |-> "edit", image |-> image, prompt |-> prompt,
     before |-> conceptImage, clean |-> TRUE]

UNDEFINED == [undefined |-> TRUE]

\* base64Image.split(',')[1]
EditPayload(base64Image) ==
    IF Len(Split(base64Image)) >= 2 THEN Split(base64Image)[2] ELSE UNDEFINED

\* what editConceptImage(base64Image, prompt) may return
EditedImages(base64Image) ==
    LET data == EditPayload(base64Image)
    IN  {NULL, DataUri(ImagePayload(IF data = UNDEFINED THEN "undefined" ELSE data.for, TRUE))}

\* a variant without the early return
EditReturnsEarly_Never(image) == FALSE

\* if (!conceptImage) return
EditReturnsEarly(image) == image = NULL

\* handleEditIllustration(prompt): returns at once when no image is stored
handleEditIllustration(prompt) ==
    /\ mounted /\ currentView = "lessons"
    /\ IF EditReturnsEarly(conceptImage)
       THEN /\ lastEvent' = Event("editNoop", NULL, NULL)
            /\ UNCHANGED <<isLoading, inflight, requests>>
       ELSE /\ CanStart
            /\ isLoading' = TRUE
            /\ inflight' = Append(inflight, EditCall(conceptImage, prompt))
            /\ requests' = requests + 1
            /\ lastEvent' = Event("editStart", EditCall(conceptImage, prompt), NULL)
    /\ UNCHANGED <<budget, mounted, currentView, currentLesson, analysis, chatMessages,
                   chatInput, lessonTopic, conceptImage, conceptVideo, isTranscribing>>

EditResolve(i, img) ==
    /\ i \in 1..Len(inflight) /\ inflight[i].kind = "edit"
    /\ img \in EditedImages(inflight[i].image)
    /\ conceptImage' = ImageStored(img, conceptImage)
    /\ isLoading' = FinallyLoading(isLoading)
    /\ inflight' = Remove(Touch(inflight, "image"), i)
    /\ lastEvent' = Event("editOk", inflight[i], img)
    /\ UNCHANGED <<budget, mounted, currentView, currentLesson, analysis, chatMessages,
                   chatInput, lessonTopic, conceptVideo, isTranscribing, requests>>

EditReject(i) ==
    /\ i \in 1..Len(inflight) /\ inflight[i].kind = "edit"
    /\ conceptImage' = CatchKeeps(conceptImage)
    /\ isLoading' = FinallyLoading(isLoading)
    /\ inflight' = Remove(inflight, i)
    /\ lastEvent' = Event("editFail", inflight[i], ERROR)
    /\ UNCHANGED <<budget, mounted, currentView, currentLesson, analysis, chatMessages,
                   chatInput, lessonTopic, conceptVideo, isTranscribing, requests>>

(***************************************************************************)
(* Video flow: generateConceptVideo's submit, poll loop and download.      *)
(***************************************************************************)
\* phase: the await the call is suspended at
\*   "submit"  ai.models.generateVideos
\*   "sleep"   the 5000 ms timer of the poll loop
\*   "status"  ai.operations.getVideosOperation
\*   "fetch"   fetch(downloadLink) and response.blob()
\* reports: not-done operations seen; delays: timers started; polls: status
\* queries issued; fetches: downloads issued
VideoCall(topic, phase, polls) ==
    [kind |-> "video", topic |-> topic, phase |-> phase, polls |-> polls,
     reports |-> 0, delays |-> 0, fetches |-> 0,
     before |-> conceptVideo, clean |-> TRUE]

\* the Visualize button (disabled while isLoading): handleGenerateVideo up to
\* the first await inside generateConceptVideo(lessonTopic)
handleGenerateVideo ==
    /\ mounted /\ currentView = "lessons" /\ ~isLoading /\ CanStart
    /\ isLoading' = TRUE
    /\ inflight' = Append(inflight, VideoCall(lessonTopic, "submit", 0))
    /\ requests' = requests + 1
    /\ lastEvent' = Event("videoStart", VideoCall(lessonTopic, "submit", 0), NULL)
    /\ UNCHANGED <<budget, mounted, currentView, currentLesson, analysis, chatMessages,
                   chatInput, lessonTopic, conceptImage, conceptVideo, isTranscribing>>

\* setConceptVideo(videoUrl)
VideoStored(result, video) == result

\* a variant of the loop that would query again without waiting
LoopEntered_NoDelay(flow) ==
    [flow EXCEPT !.phase = "status", !.reports = @ + 1, !.polls = @ + 1]

\* a variant whose timer would never lead to the status query
TimerFired_Stalls(flow) == flow

\* `while (!operation.done)` found the operation not done: the body awaits
\* its timer
LoopEntered(flow) ==
    [flow EXCEPT !.phase = "sleep", !.reports = @ + 1, !.delays = @ + 1]

\* the timer fired: getVideosOperation is awaited
TimerFired(flow) == [flow EXCEPT !.phase = "status", !.polls = @ + 1]

\* the loop was left and downloadLink is set: fetch is awaited
LoopLeft(flow) == [flow EXCEPT !.phase = "fetch", !.fetches = @ + 1]

\* generateVideos or getVideosOperation resolved with an operation that is not
\* done: the loop body starts its timer
VideoNotDone(i) ==
    /\ i \in 1..Len(inflight) /\ inflight[i].kind = "video"
    /\ inflight[i].phase \in {"submit", "status"}
    /\ inflight[i].polls < MaxPolls
    /\ inflight' = [inflight EXCEPT ![i] = LoopEntered(@)]
    /\ lastEvent' = Event("videoNotDone", inflight[i], NULL)
    /\ UNCHANGED <<budget, mounted, currentView, currentLesson, isLoading, analysis,
                   chatMessages, chatInput, lessonTopic, conceptImage, conceptVideo,
                   isTranscribing, requests>>

\* the timer fired: the status query is issued
VideoPoll(i) ==
    /\ i \in 1..Len(inflight) /\ inflight[i].kind = "video"
    /\ inflight[i].phase = "sleep"
    /\ inflight' = [inflight EXCEPT ![i] = TimerFired(@)]
    /\ lastEvent' = Event("videoPoll", inflight[i], NULL)
    /\ UNCHANGED <<budget, mounted, currentView, currentLesson, isLoading, analysis,
                   chatMessages, chatInput, lessonTopic, conceptImage, conceptVideo,
                   isTranscribing, requests>>

\* the operation is done and carries a download link: the fetch is issued
VideoDoneWithLink(i) ==
    /\ i \in 1..Len(inflight) /\ inflight[i].kind = "video"
    /\ inflight[i].phase \in {"submit", "status"}
    /\ inflight' = [inflight EXCEPT ![i] = LoopLeft(@)]
    /\ lastEvent' = Event("videoDone", inflight[i], NULL)
    /\ UNCHANGED <<budget, mounted, currentView, currentLesson, isLoading, analysis,
                   chatMessages, chatInput, lessonTopic, conceptImage, conceptVideo,
                   isTranscribing, requests>>

\* generateConceptVideo returned: null when the done operation has no link
\* (from "submit" or "status"), the object URL when the download finished
VideoResolve(i) ==
    /\ i \in 1..Len(inflight) /\ inflight[i].kind = "video"
    /\ inflight[i].phase \in {"submit", "status", "fetch"}
    /\ LET url == IF inflight[i].phase = "fetch" THEN VideoUrl(inflight[i].topic) ELSE NULL
       IN /\ conceptVideo' = VideoStored(url, conceptVideo)
          /\ lastEvent' = Event("videoOk", inflight[i], url)
    /\ isLoading' = FinallyLoading(isLoading)
    /\ inflight' = Remove(Touch(inflight, "video"), i)
    /\ UNCHANGED <<budget, mounted, currentView, currentLesson, analysis, chatMessages,
                   chatInput, lessonTopic, conceptImage, isTranscribing, requests>>

\* a remote call of generateConceptVideo rejected (the timer cannot)
VideoReject(i) ==
    /\ i \in 1..Len(inflight) /\ inflight[i].kind = "video"
    /\ inflight[i].phase \in {"submit", "status", "fetch"}
    /\ conceptVideo' = CatchKeeps(conceptVideo)
    /\ isLoading' = FinallyLoading(isLoading)
    /\ inflight' = Remove(inflight, i)
    /\ lastEvent' = Event("videoFail", inflight[i], ERROR)
    /\ UNCHANGED <<budget, mounted, currentView, currentLesson, analysis, chatMessages,
                   chatInput, lessonTopic, conceptImage, isTranscribing, requests>>

(***************************************************************************)
(* Code analysis flow.                                                     *)
(***************************************************************************)
\* the schema's required fields
RequiredFields == {"explanation", "bugs", "improvements", "output"}

\* response.text: text that is no JSON, or a JSON object with some fields
NotJson == [json |-> FALSE]

JsonObject(fields) == [json |-> TRUE, fields |-> fields]

\* the responses of the model: no JSON, the full object, and every object
\* that lacks one required field
AnalysisResponses ==
    {NotJson, JsonObject(RequiredFields)} \cup
    {JsonObject(RequiredFields \ {f}) : f \in RequiredFields}

\* JSON.parse(text): throws on text that is no JSON, else the parsed object
JSONParse(text) == IF text.json THEN [fields |-> text.fields] ELSE ERROR

\* analyzeCode: return JSON.parse(response.text)
analyzeCode(response) == JSONParse(response)

AnalyzeCall == [kind |-> "analyze", before |-> analysis, clean |-> TRUE]

\* the Run & Analyze button (disabled while isLoading): handleAnalyzeCode up to
\* `await analyzeCode(code)`
handleAnalyzeCode ==
    /\ mounted /\ currentView = "playground" /\ ~isLoading /\ CanStart
    /\ isLoading' = TRUE
    /\ inflight' = Append(inflight, AnalyzeCall)
    /\ requests' = requests + 1
    /\ lastEvent' = Event("analyzeStart", AnalyzeCall, NULL)
    /\ UNCHANGED <<budget, mounted, currentView, currentLesson, analysis, chatMessages,
                   chatInput, lessonTopic, conceptImage, conceptVideo, isTranscribing>>

\* setAnalysis(result)
AnalysisStored(result, old) == result

\* generateContent resolved with `response`: analyzeCode returns or throws
AnalyzeSettle(i, response) ==
    /\ i \in 1..Len(inflight) /\ inflight[i].kind = "analyze"
    /\ response \in AnalysisResponses
    /\ LET result == analyzeCode(response)
       IN /\ analysis' = IF result = ERROR THEN CatchKeeps(analysis)
                         ELSE AnalysisStored(result, analysis)
          /\ lastEvent' = Event(IF result = ERROR THEN "analyzeFail" ELSE "analyzeOk",
                                inflight[i], response)
          /\ inflight' = IF result = ERROR THEN Remove(inflight, i)
                         ELSE Remove(Touch(inflight, "analysis"), i)
    /\ isLoading' = FinallyLoading(isLoading)
    /\ UNCHANGED <<budget, mounted, currentView, currentLesson, chatMessages, chatInput,
                   lessonTopic, conceptImage, conceptVideo, isTranscribing, requests>>

\* generateContent rejected
AnalyzeReject(i) ==
    /\ i \in 1..Len(inflight) /\ inflight[i].kind = "analyze"
    /\ analysis' = CatchKeeps(analysis)
    /\ isLoading' = FinallyLoading(isLoading)
    /\ inflight' = Remove(inflight, i)
    /\ lastEvent' = Event("analyzeFail", inflight[i], ERROR)
    /\ UNCHANGED <<budget, mounted, currentView, currentLesson, chatMessages, chatInput,
                   lessonTopic, conceptImage, conceptVideo, isTranscribing, requests>>

(***************************************************************************)
(* Chat: the input field, the simulated transcription, the send flow.      *)
(* A text is the sequence of its characters; " " is the whitespace one.    *)
(***************************************************************************)
\* what the user may have typed into the input field: nothing, whitespace
\* only, a word, a word with whitespace around it
Inputs == {<<>>, <<" ">>, <<"a">>, <<" ", "a", " ">>}

\* the canned question handleTranscribe writes, as one non-blank character
CannedQuestion == <<"How do I use list comprehensions in Python?">>

\* the fallback of `response.text || 'No response'`
NoResponse == <<"No response">>

\* response.text of tutorChat.sendMessage: empty or not
ReplyTexts == {<<>>, <<"a">>}

RECURSIVE TrimStart(_)
TrimStart(str) ==
    IF str # <<>> /\ Head(str) = " " THEN TrimStart(Tail(str)) ELSE str

RECURSIVE TrimEnd(_)
TrimEnd(str) ==
    IF str # <<>> /\ str[Len(str)] = " " THEN TrimEnd(SubSeq(str, 1, Len(str) - 1)) ELSE str

\* String.prototype.trim
Trim(str) == TrimEnd(TrimStart(str))

\* the guard of handleSendMessage: !chatInput.trim()
IsBlank(str) == Trim(str) = <<>>

\* onChange of the input field: setChatInput(e.target.value)
TypeInput(str) ==
    /\ mounted /\ currentView = "chat"
    /\ str \in Inputs
    /\ chatInput' = str
    /\ lastEvent' = Event("type", NULL, NULL)
    /\ UNCHANGED <<budget, mounted, currentView, currentLesson, isLoading, analysis,
                   chatMessages, lessonTopic, conceptImage, conceptVideo,
                   isTranscribing, inflight, requests>>

TranscribeCall == [kind |-> "transcribe"]

\* handleTranscribe up to the await of its 2000 ms timer
handleTranscribe ==
    /\ mounted /\ currentView = "chat" /\ CanStart
    /\ isTranscribing' = TRUE
    /\ inflight' = Append(inflight, TranscribeCall)
    /\ requests' = requests + 1
    /\ lastEvent' = Event("transcribeStart", TranscribeCall, NULL)
    /\ UNCHANGED <<budget, mounted, currentView, currentLesson, isLoading, analysis,
                   chatMessages, chatInput, lessonTopic, conceptImage, conceptVideo>>

\* the timer fired: setChatInput(canned question), finally setIsTranscribing(false)
TranscribeDone(i) ==
    /\ i \in 1..Len(inflight) /\ inflight[i].kind = "transcribe"
    /\ chatInput' = CannedQuestion
    /\ isTranscribing' = FALSE
    /\ inflight' = Remove(inflight, i)
    /\ lastEvent' = Event("transcribeDone", inflight[i], NULL)
    /\ UNCHANGED <<budget, mounted, currentView, currentLesson, isLoading, analysis,
                   chatMessages, lessonTopic, conceptImage, conceptVideo, requests>>

ChatCall(message) == [kind |-> "chat", message |-> message]

UserTurn(text) == [role |-> "user", text |-> text]

ModelTurn(text) == [role |-> "model", text |-> text]

\* a variant that would return early on the empty input only
SendReturnsEarly_EmptyOnly(input) == input = <<>>

\* the early return of handleSendMessage
SendReturnsEarly(input) == IsBlank(input)

\* handleSendMessage (send button, Enter key) up to `await tutorChat.sendMessage`
handleSendMessage ==
    /\ mounted /\ currentView = "chat"
    /\ IF SendReturnsEarly(chatInput)
       THEN /\ lastEvent' = Event("sendNoop", NULL, NULL)
            /\ UNCHANGED <<chatMessages, chatInput, isLoading, inflight, requests>>
       ELSE /\ CanStart
            /\ chatMessages' = Append(chatMessages, UserTurn(chatInput))
            /\ chatInput' = <<>>
            /\ isLoading' = TRUE
            /\ inflight' = Append(inflight, ChatCall(chatInput))
            /\ requests' = requests + 1
            /\ lastEvent' = Event("sendStart", ChatCall(chatInput), NULL)
    /\ UNCHANGED <<budget, mounted, currentView, currentLesson, analysis, lessonTopic,
                   conceptImage, conceptVideo, isTranscribing>>

\* response.text || 'No response'
ReplyText(text) == IF text = <<>> THEN NoResponse ELSE text

\* a variant that would put the reply in place of the last turn
ReplyAppended_Overwrites(messages, text) ==
    [messages EXCEPT ![Len(messages)] = ModelTurn(ReplyText(text))]

\* a variant whose catch block would take the last turn back
ChatCatchKeeps_RollsBack(messages) == SubSeq(messages, 1, Len(messages) - 1)

\* setChatMessages(prev => [...prev, {role: 'model', text}])
ReplyAppended(messages, text) == Append(messages, ModelTurn(ReplyText(text)))

\* what the chat flow's catch block leaves of the transcript
ChatCatchKeeps(messages) == messages

\* sendMessage resolved
ChatResolve(i, text) ==
    /\ i \in 1..Len(inflight) /\ inflight[i].kind = "chat"
    /\ text \in ReplyTexts
    /\ chatMessages' = ReplyAppended(chatMessages, text)
    /\ isLoading' = FinallyLoading(isLoading)
    /\ inflight' = Remove(inflight, i)
    /\ lastEvent' = Event("sendOk", inflight[i], [text |-> text])
    /\ UNCHANGED <<budget, mounted, currentView, currentLesson, analysis, chatInput,
                   lessonTopic, conceptImage, conceptVideo, isTranscribing, requests>>

\* sendMessage rejected
ChatReject(i) ==
    /\ i \in 1..Len(inflight) /\ inflight[i].kind = "chat"
    /\ chatMessages' = ChatCatchKeeps(chatMessages)
    /\ isLoading' = FinallyLoading(isLoading)
    /\ inflight' = Remove(inflight, i)
    /\ lastEvent' = Event("sendFail", inflight[i], ERROR)
    /\ UNCHANGED <<budget, mounted, currentView, currentLesson, analysis, chatInput,
                   lessonTopic, conceptImage, conceptVideo, isTranscribing, requests>>

(***************************************************************************)
(* The program: any handler may run, any outstanding call may settle.      *)
(***************************************************************************)
Calls == 1..MaxRequests

\* navigation, and the lesson call an effect issued
ShellNext ==
    \/ \E view \in View : Navigate(view)
    \/ \E i \in Calls, body \in LessonBodies : LessonResolve(i, body)
    \/ \E i \in Calls : LessonReject(i)

\* the handlers of the lessons view
LessonsNext ==
    \/ \E topic \in TopicButtons : TopicClick(topic)
    \/ handleGenerateIllustration
    \/ \E i \in Calls, img \in {NULL} \cup {DataUri(ImagePayload(t, FALSE)) : t \in Topics} :
          IllustrationResolve(i, img)
    \/ \E i \in Calls : IllustrationReject(i)
    \/ handleEditIllustration(RetroPrompt)
    \/ \E i \in Calls, img \in {NULL} \cup {DataUri(ImagePayload(t, TRUE)) : t \in Topics} :
          EditResolve(i, img)
    \/ \E i \in Calls : EditReject(i)
    \/ handleGenerateVideo
    \/ \E i \in Calls : VideoNotDone(i)
    \/ \E i \in Calls : VideoPoll(i)
    \/ \E i \in Calls : VideoDoneWithLink(i)
    \/ \E i \in Calls : VideoResolve(i)
    \/ \E i \in Calls : VideoReject(i)

\* the handlers of the playground view
PlaygroundNext ==
    \/ handleAnalyzeCode
    \/ \E i \in Calls, response \in AnalysisResponses : AnalyzeSettle(i, response)
    \/ \E i \in Calls : AnalyzeReject(i)

\* the handlers of the chat view
ChatNext ==
    \/ \E str \in Inputs : TypeInput(str)
    \/ handleTranscribe
    \/ \E i \in Calls : TranscribeDone(i)
    \/ handleSendMessage
    \/ \E i \in Calls, text \in ReplyTexts : ChatResolve(i, text)
    \/ \E i \in Calls : ChatReject(i)

SessionNext == ShellNext \/ LessonsNext \/ PlaygroundNext \/ ChatNext

Next == Mount \/ SessionNext

\* the whole program
Spec == Init /\ [][Next]_vars

\* from startup, the user stays within one view's handlers (and the
\* navigation rail)
SpecLessons == Init /\ [][Mount \/ ShellNext \/ LessonsNext]_vars

SpecLessonsLong == InitLong /\ [][Mount \/ ShellNext \/ LessonsNext]_vars

SpecPlayground == Init /\ [][Mount \/ ShellNext \/ PlaygroundNext]_vars

SpecChat == Init /\ [][Mount \/ ShellNext \/ ChatNext]_vars

\* The state once the first lesson and an illustration of it have loaded:
\* Mount, LessonResolve, handleGenerateIllustration, IllustrationResolve.
InitLoaded ==
    /\ mounted = TRUE
    /\ currentView = "lessons"
    /\ currentLesson = LessonText(DefaultTopic, "md")
    /\ isLoading = FALSE
    /\ analysis = NULL
    /\ chatMessages = <<>>
    /\ chatInput = <<>>
    /\ lessonTopic = DefaultTopic
    /\ conceptImage = DataUri(ImagePayload(DefaultTopic, FALSE))
    /\ conceptVideo = NULL
    /\ isTranscribing = FALSE
    /\ inflight = <<>>
    /\ requests = 2
    /\ budget = MaxRequests
    /\ lastEvent = Event("illustrationOk",
                         [kind |-> "illustration", topic |-> DefaultTopic,
                          before |-> NULL, clean |-> TRUE],
                         DataUri(ImagePayload(DefaultTopic, FALSE)))

\* every handler of every view, from the loaded state on
SpecSession == InitLoaded /\ [][SessionNext]_vars

\* The remote side of a video call answers the call that is outstanding
\* (with a not-done or a done operation, or by an error); it reports done
\* after MaxPolls queries at the latest.
VideoRemoteAnswers ==
    \E i \in Calls :
        VideoNotDone(i) \/ VideoDoneWithLink(i) \/ VideoResolve(i) \/ VideoReject(i)

\* the event loop runs a timer that is due
VideoTimerFires == \E i \in Calls : VideoPoll(i)

\* The lessons view from the loaded state on, with a remote side that
\* answers every video call and an event loop that fires every timer.
SpecVideoLive ==
    /\ InitLoaded
    /\ [][ShellNext \/ LessonsNext]_vars
    /\ WF_vars(VideoTimerFires)
    /\ WF_vars(VideoRemoteAnswers)

\* A string without a comma: split(',') yields the string itself, alone.
PlainString(payload) == [segments |-> <<payload>>]

\* arguments given to editConceptImage(base64Image, prompt): any string
EditArguments ==
    {DataUri(ImagePayload(DefaultTopic, FALSE)),
     PlainString(ImagePayload(DefaultTopic, FALSE))}

\* The gateway function editConceptImage on any argument: the handler passes
\* it the stored image, so the stored image of the loaded state is drawn
\* from EditArguments.
InitEdit ==
    /\ mounted = TRUE
    /\ currentView = "lessons"
    /\ currentLesson = LessonText(DefaultTopic, "md")
    /\ isLoading = FALSE
    /\ analysis = NULL
    /\ chatMessages = <<>>
    /\ chatInput = <<>>
    /\ lessonTopic = DefaultTopic
    /\ conceptImage \in EditArguments
    /\ conceptVideo = NULL
    /\ isTranscribing = FALSE
    /\ inflight = <<>>
    /\ requests = 2
    /\ budget = MaxRequests
    /\ lastEvent = Event("init", NULL, NULL)

\* the image part returned for a request whose inlineData.data was undefined
EditNext ==
    \E i \in Calls : EditResolve(i, DataUri(ImagePayload("undefined", TRUE)))

SpecEdit == InitEdit /\ [][ShellNext \/ LessonsNext \/ EditNext]_vars

(***************************************************************************)
(* Properties.                                                             *)
(***************************************************************************)
\* the step just taken appended a suspended lesson flow
LessonStarted ==
    /\ Len(inflight') = Len(inflight) + 1
    /\ inflight'[Len(inflight')].kind = "lesson"

\* C1: every step that starts a lesson generation (topic click, mount,
\* view entry) leaves the stored illustration and the stored video absent
\* before its call is awaited, so the clearing does not depend on how the
\* call settles; the settling itself (success or failure) puts neither back.
C1_LessonStartClearsMedia ==
    [][/\ LessonStarted => conceptImage' = NULL /\ conceptVideo' = NULL
       /\ lastEvent'.name \in {"lessonOk", "lessonFail"} =>
              conceptImage' = conceptImage /\ conceptVideo' = conceptVideo]_vars

\* a lesson generation was started while an illustration was stored
C1_Witness ==
    /\ lastEvent.name = "lessonStart"
    /\ lastEvent.result.image # NULL
    /\ conceptImage = NULL /\ conceptVideo = NULL
    /\ \E i \in 1..Len(inflight) : inflight[i].kind = "lesson"

\* C2: a run of handleSendMessage on an empty or whitespace-only input
\* changes nothing: no turn is appended, no call is issued, the input field
\* and the busy flag keep their values.
C2_BlankSendIsNoop ==
    [][lastEvent'.name \in {"sendNoop", "sendStart"} /\ IsBlank(chatInput) =>
          /\ chatMessages' = chatMessages
          /\ inflight' = inflight
          /\ requests' = requests
          /\ chatInput' = chatInput
          /\ isLoading' = isLoading]_vars

\* a send on a whitespace-only (non-empty) input has just returned
C2_Witness ==
    /\ lastEvent.name = "sendNoop"
    /\ chatInput # <<>> /\ IsBlank(chatInput)

\* C3: when a send's call fails, the failure appends no turn, and the user
\* turn appended at send time is still in the transcript.
C3_FailedSendKeepsUserTurn ==
    [][lastEvent'.name = "sendFail" =>
          /\ chatMessages' = chatMessages
          /\ \E k \in 1..Len(chatMessages') :
                chatMessages'[k] = UserTurn(lastEvent'.flow.message)]_vars

\* a send has just failed and its user turn is the transcript's last turn
C3_Witness ==
    /\ lastEvent.name = "sendFail"
    /\ chatMessages # <<>>
    /\ chatMessages[Len(chatMessages)] = UserTurn(lastEvent.flow.message)

IsPrefix(p, q) == Len(p) <= Len(q) /\ \A k \in 1..Len(p) : p[k] = q[k]

\* C4: the transcript only grows at its end: every step leaves the previous
\* transcript a prefix of the new one (hence, by transitivity, the transcript
\* of any earlier state is a prefix of that of any later state).
C4_TranscriptAppendOnly == [][IsPrefix(chatMessages, chatMessages')]_vars

\* two sends overlapped and both were answered
C4_Witness ==
    /\ Len(chatMessages) >= 4
    /\ chatMessages[1].role = "user" /\ chatMessages[2].role = "user"
    /\ chatMessages[3].role = "model" /\ chatMessages[4].role = "model"

\* the flows that set the busy flag and are still suspended
BusyFlows == {i \in 1..Len(inflight) : inflight[i].kind # "transcribe"}

SettledNames ==
    {"lessonOk", "lessonFail", "illustrationOk", "illustrationFail", "editOk",
     "editFail", "videoOk", "videoFail", "analyzeOk", "analyzeFail", "sendOk",
     "sendFail"}

FailedNames ==
    {"lessonFail", "illustrationFail", "editFail", "videoFail", "analyzeFail",
     "sendFail"}

\* C5: the busy flag is false right after any flow that sets it has
\* completed, by success or by failure; and it is false whenever no such
\* flow is suspended.
C5_BusyClearedOnCompletion ==
    /\ lastEvent.name \in SettledNames => ~isLoading
    /\ BusyFlows = {} => ~isLoading

\* a flow has just failed, nothing is outstanding, and the flag is down
C5_Witness ==
    /\ lastEvent.name \in FailedNames
    /\ BusyFlows = {}
    /\ ~isLoading

\* C6: the stored lesson, illustration and video were all generated for the
\* active topic.
C6_MediaMatchTopic ==
    /\ currentLesson # NULL => currentLesson.for = lessonTopic
    /\ conceptImage # NULL => EditPayload(conceptImage).for = lessonTopic
    /\ conceptVideo # NULL => conceptVideo.for = lessonTopic

\* C7: a lesson result that arrives after a later-issued lesson request has
\* already stored its own is not discarded: it becomes the stored lesson and
\* its topic the active topic (the last call to resolve wins).
C7_LastResolverWins ==
    lastEvent.name = "lessonOk" /\ lastEvent.flow.overtaken =>
        /\ currentLesson = lastEvent.result
        /\ lessonTopic = lastEvent.flow.topic

\* the startup lesson resolved after the lesson of a clicked topic had
\* been stored, and replaced it
C7_Witness ==
    /\ lastEvent.name = "lessonOk"
    /\ lastEvent.flow.overtaken
    /\ lastEvent.flow.topic = DefaultTopic
    /\ lastEvent.flow.before.lesson = NULL
    /\ lessonTopic = DefaultTopic
    /\ currentLesson = LessonText(DefaultTopic, "md")

\* the result slots, by name
SlotNow ==
    [lesson |-> LessonSlot, image |-> conceptImage, video |-> conceptVideo,
     analysis |-> analysis]

SlotFailedNames ==
    {"lessonFail", "illustrationFail", "editFail", "videoFail", "analyzeFail"}

\* C8: the step in which a flow fails leaves the result slot of that flow
\* (lesson text and active topic; image; video; analysis) as it was; and
\* when no other step wrote that slot since the flow started, the slot
\* still holds the value it had when the flow started.
C8_FailureKeepsSlot ==
    [][lastEvent'.name \in SlotFailedNames =>
          LET flow == lastEvent'.flow
              slot == SlotOf(flow.kind)
          IN /\ SlotNow'[slot] = SlotNow[slot]
             /\ flow.clean => SlotNow'[slot] = flow.before]_vars

\* an illustration generation has just failed while an illustration was
\* stored, and the stored one is the one the flow found when it started
C8_Witness ==
    /\ lastEvent.name = "illustrationFail"
    /\ lastEvent.flow.clean
    /\ conceptImage # NULL
    /\ conceptImage = lastEvent.flow.before

\* C9: the step in which generateLesson(topic) resolves stores exactly the
\* returned text as the current lesson and makes the requested topic the
\* active one; no other step changes the active topic, in particular not
\* the step that starts the flow.
C9_LessonStoredOnSuccess ==
    [][/\ lastEvent'.name = "lessonOk" =>
              /\ currentLesson' = lastEvent'.result
              /\ lessonTopic' = lastEvent'.flow.topic
       /\ lessonTopic' # lessonTopic => lastEvent'.name = "lessonOk"
       /\ LessonStarted => currentLesson' = currentLesson]_vars

\* the lesson of a clicked topic has just been stored, and the active
\* topic, which was the default one while the call was outstanding, is now
\* the clicked one
C9_Witness ==
    /\ lastEvent.name = "lessonOk"
    /\ lastEvent.flow.topic \in TopicButtons
    /\ lastEvent.flow.before.topic = DefaultTopic
    /\ lessonTopic = lastEvent.flow.topic
    /\ currentLesson = LessonText(lastEvent.flow.topic, "md")

\* C10: the stored analysis is never a record that lacks one of the four
\* required fields.
C10_AnalysisComplete ==
    analysis # NULL => analysis.fields = RequiredFields

\* C11: an edit flow whose image argument has no comma finishes by
\* failure, and the stored image is then the one the flow was given.
C11_MalformedEditFails ==
    /\ lastEvent.name \in {"editOk", "editFail"}
    /\ EditPayload(lastEvent.flow.image) = UNDEFINED
    => /\ lastEvent.name = "editFail"
       /\ lastEvent.flow.clean => conceptImage = lastEvent.flow.image

\* the video calls outstanding
VideoFlows == {i \in 1..Len(inflight) : inflight[i].kind = "video"}

\* C12: in every video call, as many poll delays have been started as
\* not-done reports were received; each status query was issued after a
\* delay of its own (the queries equal the delays, less the one running);
\* and the download is issued exactly once, when the loop has been left on
\* a done report.  Hence n not-done reports followed by a done report with
\* a link give n delays, n queries and one fetch.
C12_PollsMatchReports ==
    \A i \in VideoFlows :
        LET flow == inflight[i]
        IN /\ flow.delays = flow.reports
           /\ flow.polls = IF flow.phase = "sleep" THEN flow.delays - 1 ELSE flow.delays
           /\ flow.fetches = IF flow.phase = "fetch" THEN 1 ELSE 0

\* a video call that saw not-done twice (the submit response and the first
\* query) and then done is downloading
C12_Witness ==
    \E i \in VideoFlows :
        /\ inflight[i].phase = "fetch"
        /\ inflight[i].reports = 2
        /\ inflight[i].delays = 2
        /\ inflight[i].polls = 2
        /\ inflight[i].fetches = 1

\* the steps of a video call between its start and its completion
VideoLoopNames == {"videoNotDone", "videoPoll", "videoDone"}

\* a step inside the poll loop keeps the call outstanding and the flag as is
VideoLoopKeepsFlow ==
    lastEvent'.name \in VideoLoopNames =>
        (Len(inflight') = Len(inflight) /\ isLoading' = isLoading)

\* a video call ends only by the return or the throw of generateConceptVideo
VideoEndsOnlySettled ==
    Cardinality(VideoFlows') < Cardinality(VideoFlows) =>
        (/\ lastEvent'.name \in {"videoOk", "videoFail"}
         /\ lastEvent'.flow.phase \in {"submit", "status", "fetch"}
         /\ ~isLoading')

\* C13: a video call that is outstanding stays outstanding, and leaves the
\* busy flag alone, through every not-done report, timer and status query,
\* however many there are; it completes only in the step that follows a done
\* report or an error of a remote call; and when the remote side answers
\* every call and eventually reports done, every video call eventually
\* completes, with the busy flag cleared in the completing step.
C13_VideoCompletesIffDone ==
    /\ [][VideoLoopKeepsFlow /\ VideoEndsOnlySettled]_vars
    /\ (VideoFlows # {}) ~> (VideoFlows = {} /\ ~isLoading)

\* a video call has completed with its download after the remote side
\* had reported not done as often as the model lets it
C13_Witness ==
    /\ lastEvent.name = "videoOk"
    /\ lastEvent.flow.phase = "fetch"
    /\ lastEvent.flow.reports = MaxPolls
    /\ conceptVideo = VideoUrl(lastEvent.flow.topic)
    /\ ~isLoading

\* the state cells of the component and the calls outstanding
ProgramState ==
    <<currentView, currentLesson, isLoading, analysis, chatMessages, chatInput,
      lessonTopic, conceptImage, conceptVideo, isTranscribing, inflight, requests>>

\* C14: a run of handleEditIllustration while no illustration is stored
\* issues no call and leaves the stored image, the busy flag and every other
\* state cell as they were.
C14_EditWithoutImageIsNoop ==
    [][lastEvent'.name \in {"editNoop", "editStart"} /\ conceptImage = NULL =>
          ProgramState' = ProgramState]_vars

\* the edit handler has just returned early while a lesson call was
\* outstanding and the busy flag set
C14_Witness ==
    /\ lastEvent.name = "editNoop"
    /\ conceptImage = NULL
    /\ isLoading
    /\ inflight # <<>>

\* a flow that settles ends: its call is gone and none is issued
SettleIssuesNothing ==
    lastEvent'.name \in SettledNames =>
        (requests' = requests /\ Len(inflight') = Len(inflight) - 1)

\* a step issues at most one gateway operation, that of the handler started
StartIssuesOne ==
    /\ requests' \in {requests, requests + 1}
    /\ requests' = requests + 1 => Len(inflight') = Len(inflight) + 1

\* a video call awaits generateVideos only before any poll
SubmitOnlyFirst ==
    \A i \in VideoFlows' :
        inflight'[i].phase = "submit" =>
            (inflight'[i].polls = 0 /\ inflight'[i].reports = 0)

\* C15: nothing is retried: the step in which a flow settles, by success
\* or by failure, issues no gateway operation and ends the flow; a handler
\* invocation issues one operation, when it starts; within a video call the
\* submit is awaited once, before the first poll, and only the status query
\* repeats.
C15_NothingRetried ==
    [][SettleIssuesNothing /\ StartIssuesOne /\ SubmitOnlyFirst]_vars

\* a video call that had queried the status twice has just failed, and
\* nothing is outstanding after it
C15_Witness ==
    /\ lastEvent.name = "videoFail"
    /\ lastEvent.flow.polls = 2
    /\ inflight = <<>>

\* the step made the lessons view the active view: at startup, or coming
\* from another view
EntersLessons ==
    /\ currentView' = "lessons"
    /\ lastEvent'.name = "mount" \/ currentView # "lessons"

\* C16: startup and navigation start a lesson generation exactly when the
\* step makes the lessons view the active one while no lesson text (none, or
\* an empty one) is stored, and the generation is then for the default
\* topic; whether a lesson call is already outstanding plays no part.
C16_LessonOnViewEntry ==
    [][lastEvent'.name \in {"mount", "navigate"} =>
          /\ LessonStarted <=> (EntersLessons /\ Falsy(currentLesson))
          /\ LessonStarted => inflight'[Len(inflight')].topic = DefaultTopic]_vars

\* the lessons view was left and entered again while the startup lesson
\* call was outstanding: two lesson calls for the default topic overlap
C16_Witness ==
    /\ lastEvent.name = "navigate"
    /\ currentView = "lessons"
    /\ currentLesson = NULL
    /\ Len(inflight) = 2
    /\ inflight[1].kind = "lesson" /\ inflight[1].topic = DefaultTopic
    /\ inflight[2].kind = "lesson" /\ inflight[2].topic = DefaultTopic

\* C17: the active view is one of the four views; a navigation step makes
\* the selected view the active one whatever the busy flag and the
\* outstanding calls are; and every other step (start or completion of any
\* flow, typing, transcription) leaves the active view as it was.
C17_ViewOnlyByNavigation ==
    [][/\ currentView' \in View
       /\ currentView' # currentView => lastEvent'.name = "navigate"
       /\ lastEvent'.name = "navigate" => currentView' = lastEvent'.result.selected]_vars

\* the user has just switched to another view while the busy flag was
\* set and a chat call was outstanding
C17_Witness ==
    /\ lastEvent.name = "navigate"
    /\ lastEvent.result.selected = "playground"
    /\ currentView = "playground"
    /\ isLoading
    /\ \E i \in 1..Len(inflight) : inflight[i].kind = "chat"

\* C18: the busy flag is set whenever a flow that sets it has a call
\* outstanding.
C18_BusyWhileOutstanding == BusyFlows # {} => isLoading

\* the calls outstanding of one kind of flow
FlowsOfKind(kind) == {i \in 1..Len(inflight) : inflight[i].kind = kind}

\* the flows whose button is disabled while the busy flag is set
GatedKinds == {"illustration", "video", "analyze"}

\* C19: of each flow whose trigger is disabled while the busy flag is set,
\* at most one call is outstanding.
C19_GatedFlowsSingle ==
    \A kind \in GatedKinds : Cardinality(FlowsOfKind(kind)) <= 1

====
